---- MODULE Spec2Model ----
(***************************************************************************)
(* PBP inactivity checker (scripts/checker.py) and historical importer     *)
(* (scripts/import_history.py).                                            *)
(*                                                                         *)
(* Timestamps are whole hours on one UTC clock: datetime.isoformat() and   *)
(* datetime.fromisoformat() are inverse on timezone-aware instants, so a   *)
(* stored timestamp is the instant itself.  json.dumps / json.loads are    *)
(* inverse on the state document (string keys, integers, strings).         *)
(***************************************************************************)
EXTENDS Integers, Sequences, FiniteSets, TLC

VARIABLES env, clock, gist, pending, nextId, run, hist, pu, fs, imp, procs

vars == <<env, clock, gist, pending, nextId, run, hist, pu, fs, imp, procs>>

checkerVars == <<env, clock, gist, pending, nextId, run, hist>>

(* ------------------------------ bounds -------------------------------- *)
MaxClock == 4

MaxUpdates == 2

MaxBatch == 2

MaxOffset == 3

PoolSize == 5

MaxRuns == 2

MaxOverlapClock == 2

MaxOverlapRuns == 3

(* --------------------------- small helpers ---------------------------- *)
Max(a, b) == IF a >= b THEN a ELSE b

None == 0

Digit == <<"0", "1", "2", "3", "4", "5", "6", "7", "8", "9">>

RECURSIVE str(_)
str(n) == IF n < 10 THEN Digit[n + 1] ELSE str(n \div 10) \o Digit[(n % 10) + 1]

Get(f, k, default) == IF k \in DOMAIN f THEN f[k] ELSE default

Put(f, k, v) == [x \in DOMAIN f \cup {k} |-> IF x = k THEN v ELSE f[x]]

EmptyMap == [x \in {} |-> 0]

(* --------------------------- configuration ---------------------------- *)
config ==
    [ group_id |-> 1,
      alert_after_hours |-> 2,
      topic_pairs |-> << [pbp_topic_id |-> 1, chat_topic_id |-> 7, name |-> "A"],
                         [pbp_topic_id |-> 2, chat_topic_id |-> 8, name |-> "B"] >> ]

EmptyState == [offset |-> 0, topics |-> EmptyMap, last_alerts |-> EmptyMap]

(* The messages an update can carry: none, another chat, no thread, a      *)
(* thread that is no PBP topic, a bot in a PBP topic, a person in each PBP *)
(* topic and a second person in the first.  date is the hour the message   *)
(* was sent, as Telegram stamps it on the message.                         *)
Msg(has, chat, thread, bot, name, date) ==
    [has_message |-> has, chat_id |-> chat, message_thread_id |-> thread,
     is_bot |-> bot, first_name |-> name, date |-> date]

MsgShapes ==
    { Msg(FALSE, 0, None, FALSE, "", 0),
      Msg(TRUE, 5, 1, FALSE, "Eve", 0),
      Msg(TRUE, 1, None, FALSE, "Eve", 0),
      Msg(TRUE, 1, 3, FALSE, "Eve", 0),
      Msg(TRUE, 1, 1, TRUE, "Bot", 0),
      Msg(TRUE, 1, 1, FALSE, "Alice", 0),
      Msg(TRUE, 1, 1, FALSE, "Carol", 1),
      Msg(TRUE, 1, 2, FALSE, "Bob", 1) }

(* The fields of an update checker.py reads, and the message's date, which *)
(* it never reads.                                                         *)
Update(id, m) ==
    [update_id |-> id, has_message |-> m.has_message, chat_id |-> m.chat_id,
     message_thread_id |-> m.message_thread_id, is_bot |-> m.is_bot,
     first_name |-> m.first_name, date |-> m.date]

(* ------------------------- process_updates ---------------------------- *)
pbp_topic_ids ==
    [k \in {str(config.topic_pairs[i].pbp_topic_id) : i \in DOMAIN config.topic_pairs} |->
        LET i == CHOOSE j \in DOMAIN config.topic_pairs :
                     /\ str(config.topic_pairs[j].pbp_topic_id) = k
                     /\ \A h \in DOMAIN config.topic_pairs :
                            str(config.topic_pairs[h].pbp_topic_id) = k => h <= j
        IN config.topic_pairs[i].name]

AdvanceTrackedOnly(new_offset, update) ==
    IF /\ update.has_message
       /\ update.chat_id = config.group_id
       /\ update.message_thread_id # None
       /\ str(update.message_thread_id) \in DOMAIN pbp_topic_ids
    THEN Max(new_offset, update.update_id + 1)
    ELSE new_offset

Advance(new_offset, update) == Max(new_offset, update.update_id + 1)

TracksBots(update) ==
    /\ update.has_message
    /\ update.chat_id = config.group_id
    /\ update.message_thread_id # None
    /\ str(update.message_thread_id) \in DOMAIN pbp_topic_ids

Tracks(update) ==
    IF ~update.has_message THEN FALSE
    ELSE IF update.chat_id # config.group_id THEN FALSE
    ELSE IF update.message_thread_id = None THEN FALSE
    ELSE IF str(update.message_thread_id) \in DOMAIN pbp_topic_ids
         THEN IF update.is_bot THEN FALSE ELSE TRUE
         ELSE FALSE

(* A topic that keeps the record it has. *)
KeepFirst(topics, k, record) == IF k \in DOMAIN topics THEN topics ELSE Put(topics, k, record)

(* state["topics"][thread_id_str] = {...}: the record is replaced whole. *)
Replace(topics, k, record) == Put(topics, k, record)

TopicRecord(update, now) ==
    [last_message_time |-> now,
     last_user |-> update.first_name,
     campaign_name |-> pbp_topic_ids[str(update.message_thread_id)]]

RECURSIVE process_updates_from(_, _, _, _, _)
process_updates_from(updates, i, new_offset, topics, now) ==
    IF i > Len(updates)
    THEN [new_offset |-> new_offset, topics |-> topics]
    ELSE LET update == updates[i]
             off == Advance(new_offset, update)
         IN IF Tracks(update)
            THEN process_updates_from(updates, i + 1, off,
                     Replace(topics, str(update.message_thread_id), TopicRecord(update, now)),
                     now)
            ELSE process_updates_from(updates, i + 1, off, topics, now)

process_updates(updates, state, now) ==
    process_updates_from(updates, 1, state.offset, state.topics, now)

(* ------------- process_updates as a function of its inputs ------------- *)
Batches ==
    UNION { [1..n -> {Update(id, m) : id \in 1..MaxOffset, m \in MsgShapes}]
            : n \in 0..MaxBatch }

PriorStates ==
    { [offset |-> o, topics |-> t, last_alerts |-> EmptyMap] :
        o \in 0..(MaxOffset + 1),
        t \in { EmptyMap,
                ("1" :> [last_message_time |-> 0, last_user |-> "Zed", campaign_name |-> "A"]) } }

PuInit ==
    /\ pu \in [phase : {"in"}, state : PriorStates, updates : Batches,
               new_offset : {0}, topics : {EmptyMap},
               again_at : {0}, again_offset : {0}, again_topics : {EmptyMap}]
    /\ env = [telegram_token |-> FALSE, gist_creds |-> FALSE]
    /\ clock = 0
    /\ gist = <<>>
    /\ pending = <<>>
    /\ nextId = 1
    /\ run = [pc |-> "off"]
    /\ hist = [off |-> TRUE]
    /\ fs = [off |-> TRUE]
    /\ imp = [pc |-> "off"]
    /\ procs = [off |-> TRUE]

PuApply ==
    /\ pu.phase = "in"
    /\ LET r == process_updates(pu.updates, pu.state, 1)
       IN pu' = [pu EXCEPT !.phase = "out", !.new_offset = r.new_offset, !.topics = r.topics]
    /\ UNCHANGED checkerVars
    /\ UNCHANGED <<fs, imp, procs>>

(* The run's save failed: the next run, an hour later or within the hour,  *)
(* loads the same stored state and is handed the same updates.             *)
PuAgain ==
    /\ pu.phase = "out"
    /\ \E now \in {1, 2} :
        LET r == process_updates(pu.updates, pu.state, now)
        IN pu' = [pu EXCEPT !.phase = "again", !.again_at = now,
                            !.again_offset = r.new_offset, !.again_topics = r.topics]
    /\ UNCHANGED checkerVars
    /\ UNCHANGED <<fs, imp, procs>>

PuNext == PuApply \/ PuAgain

SpecReconcile == PuInit /\ [][PuNext]_vars

(* ----------------------------- live checker ---------------------------- *)
TopicKeys == DOMAIN pbp_topic_ids

NoSends == [k \in TopicKeys |-> 0]

NoOutcomes == [k \in TopicKeys |-> "none"]

IdleRun ==
    [pc |-> "idle", calls |-> {}, state |-> EmptyState, pre |-> EmptyState, state0 |-> EmptyState,
     updates |-> <<>>, i |-> 0, now |-> 0, loaded |-> "none",
     check_started |-> FALSE, save_attempted |-> FALSE,
     sent |-> NoSends, outcome |-> NoOutcomes, evaluated |-> {},
     after_saved_alert |-> {}, too_soon_after_saved |-> {},
     too_soon_after_unsaved |-> {}, too_soon_after_crash |-> {}, retry |-> {}]

NoHistory ==
    [alert_at |-> [k \in TopicKeys |-> -1],
     alert_run |-> [k \in TopicKeys |-> "none"],
     watch_retries |-> FALSE,
     send_failed |-> {}]

PersistedOffset == IF gist = <<>> THEN 0 ELSE gist[1].offset

Init ==
    /\ env \in [telegram_token : BOOLEAN, gist_creds : BOOLEAN]
    /\ clock = 0
    /\ gist = <<>>
    /\ pending = <<>>
    /\ nextId = 1
    /\ run = IdleRun
    /\ hist = NoHistory
    /\ pu = [phase |-> "off"]
    /\ fs = [off |-> TRUE]
    /\ imp = [pc |-> "off"]
    /\ procs = [off |-> TRUE]

(* The clock only moves forward.  It is read in whole hours and a run     *)
(* lasts seconds, so it moves between runs.                                *)
Tick ==
    /\ run.pc = "idle"
    /\ clock < MaxClock
    /\ clock' = clock + 1
    /\ UNCHANGED <<env, gist, pending, nextId, run, hist, pu, fs, imp, procs>>

(* The group's traffic: a person's message in either PBP topic, a bot's    *)
(* message in a PBP topic, a person's message in a topic the configuration *)
(* does not name.                                                          *)
LiveShapes ==
    { m \in MsgShapes : /\ m.has_message
                        /\ m.chat_id = config.group_id
                        /\ m.message_thread_id \in {1, 2, 3}
                        /\ m.first_name # "Carol" }

(* A new update reaches the transport; update ids strictly increase.  A    *)
(* person's message in a PBP topic of the group ends the topic's silence.  *)
(* An update that arrives while a run is under way is seen by the next     *)
(* fetch, as one that arrives right after the run.                         *)
Arrive ==
    /\ run.pc = "idle"
    /\ nextId <= MaxUpdates
    /\ \E m \in LiveShapes :
        LET u == Update(nextId, m)
            k == str(m.message_thread_id)
        IN /\ pending' = Append(pending, u)
           /\ hist' = IF Tracks(u)
                      THEN [hist EXCEPT !.alert_at[k] = -1, !.alert_run[k] = "none",
                                        !.send_failed = @ \ {k}]
                      ELSE hist
    /\ nextId' = nextId + 1
    /\ UNCHANGED <<env, clock, gist, run, pu, fs, imp, procs>>

(* A run that goes on without looking at the token. *)
TokenAssumed == TRUE

(* main, line 254: if not TELEGRAM_TOKEN. *)
TokenPresent == env.telegram_token

(* main, lines 254-256: the credential check. *)
Start ==
    /\ run.pc = "idle"
    /\ run' = [IdleRun EXCEPT !.pc = IF TokenPresent THEN "load" ELSE "fatal",
                              !.retry = hist.send_failed]
    /\ hist' = [hist EXCEPT !.send_failed = {}]
    /\ UNCHANGED <<env, clock, gist, pending, nextId, pu, fs, imp, procs>>

(* A load that never reads the stored document. *)
load_nothing(outcome) == EmptyState

(* load_state_from_gist: without gist credentials, on a non-200 status or  *)
(* when the gist has no state file the state is the empty one; requests.get *)
(* raising ends the run with a traceback.                                  *)
load_state_from_gist(outcome) ==
    IF ~env.gist_creds THEN EmptyState
    ELSE IF outcome # "ok" THEN EmptyState
    ELSE IF gist # <<>> THEN gist[1]
    ELSE EmptyState

Load ==
    /\ run.pc = "load"
    /\ \E outcome \in {"ok", "fail", "raise"} :
        IF env.gist_creds /\ outcome = "raise"
        THEN run' = [run EXCEPT !.pc = "crashed", !.loaded = "raise",
                                !.calls = @ \cup {"gist_get"}]
        ELSE run' = [run EXCEPT !.pc = "fetch",
                                !.state = load_state_from_gist(outcome),
                                !.calls = IF env.gist_creds THEN @ \cup {"gist_get"} ELSE @,
                                !.loaded = IF env.gist_creds THEN outcome ELSE "fail"]
    /\ UNCHANGED <<env, clock, gist, pending, nextId, hist, pu, fs, imp, procs>>

(* get_updates(offset): the transport forgets the updates below the offset *)
(* and returns the rest in ascending id order; offset 0 returns every      *)
(* unconfirmed update.  A non-200 or not-ok answer gives the empty list.   *)
get_updates(offset) == SelectSeq(pending, LAMBDA u : u.update_id >= offset)

(* main, lines 265-271: fetch, then process_updates when the list is not   *)
(* empty, storing the offset it returns.                                   *)
(* The state rebuilt from what process_updates returns alone. *)
AfterUpdatesAlone(state, updates, now) ==
    IF updates # <<>>
    THEN LET r == process_updates(updates, state, now)
         IN [offset |-> r.new_offset, topics |-> r.topics, last_alerts |-> EmptyMap]
    ELSE state

AfterUpdates(state, updates, now) ==
    IF updates # <<>>
    THEN LET r == process_updates(updates, state, now)
         IN [state EXCEPT !.topics = r.topics, !.offset = r.new_offset]
    ELSE state

FetchAndProcess ==
    /\ run.pc = "fetch"
    /\ \E outcome \in {"ok", "fail", "raise"} :
        CASE outcome = "ok" ->
                LET updates == get_updates(run.state.offset)
                IN /\ pending' = updates
                   /\ run' = [run EXCEPT !.pc = "check", !.updates = updates,
                                         !.pre = run.state,
                                         !.calls = @ \cup {"getUpdates"},
                                         !.state = AfterUpdates(run.state, updates, clock)]
          [] outcome = "fail" ->
                /\ pending' = pending
                /\ run' = [run EXCEPT !.pc = "check", !.updates = <<>>, !.pre = run.state,
                                      !.calls = @ \cup {"getUpdates"}]
          [] outcome = "raise" ->
                /\ pending' = pending
                /\ run' = [run EXCEPT !.pc = "crashed", !.calls = @ \cup {"getUpdates"}]
    /\ UNCHANGED <<env, clock, gist, nextId, hist, pu, fs, imp, procs>>

(* check_and_alert, lines 194-199. *)
CheckBegin ==
    /\ run.pc = "check"
    /\ run' = [run EXCEPT !.pc = IF Len(config.topic_pairs) = 0 THEN "save" ELSE "pairs",
                          !.i = 1, !.now = clock, !.state0 = run.state,
                          !.updates = <<>>, !.pre = EmptyState,
                          !.check_started = TRUE]
    /\ UNCHANGED <<env, clock, gist, pending, nextId, hist, pu, fs, imp, procs>>

(* check_and_alert, lines 206-226: what the loop body decides for a pair. *)
DecideWithoutRecord(pair, state, now) ==
    LET k == str(pair.pbp_topic_id)
    IN IF k \in DOMAIN state.topics /\ now - state.topics[k].last_message_time < config.alert_after_hours
       THEN "active"
       ELSE IF k \in DOMAIN state.last_alerts
               /\ now - state.last_alerts[k] < config.alert_after_hours
       THEN "cooldown"
       ELSE "send"

NoCooldown(last_alerts, k, now) == FALSE

InCooldown(last_alerts, k, now) ==
    /\ k \in DOMAIN last_alerts
    /\ now - last_alerts[k] < config.alert_after_hours

NotInactiveYet(elapsed_hours) == elapsed_hours < config.alert_after_hours

Decide(pair, state, now) ==
    LET k == str(pair.pbp_topic_id)
    IN IF k \notin DOMAIN state.topics THEN "untracked"
       ELSE IF NotInactiveYet(now - state.topics[k].last_message_time) THEN "active"
       ELSE IF InCooldown(state.last_alerts, k, now) THEN "cooldown"
       ELSE "send"

(* check_and_alert, lines 246-250: last_alerts after send_message returned. *)
RecordAlways(last_alerts, k, now, ok) == Put(last_alerts, k, now)

(* The alert recorded under the chat topic it was sent to. *)
RecordUnderChatTopic(last_alerts, k, now, ok) ==
    LET i == CHOOSE j \in DOMAIN config.topic_pairs :
                 str(config.topic_pairs[j].pbp_topic_id) = k
    IN IF ok THEN Put(last_alerts, str(config.topic_pairs[i].chat_topic_id), now)
       ELSE last_alerts

RecordAlert(last_alerts, k, now, ok) ==
    IF ok THEN Put(last_alerts, k, now) ELSE last_alerts

(* The alert history of a topic since its last new message: when the last *)
(* successful alert was sent and how the run that sent it ended ("running", *)
(* "saved", "unsaved" after a save that failed softly, "crashed").         *)
HistAfterAlert(k, now) ==
    [hist EXCEPT !.alert_at[k] = now, !.alert_run[k] = "running", !.send_failed = @ \ {k}]

(* The topics whose alert failed softly in the last run and that have had  *)
(* no person's message since, fetched or waiting to be fetched.            *)
HistAfterFailure(k) ==
    IF \/ ~hist.watch_retries
       \/ \E i \in DOMAIN pending :
              Tracks(pending[i]) /\ str(pending[i].message_thread_id) = k
    THEN hist
    ELSE [hist EXCEPT !.send_failed = @ \cup {k}]

HistAfterRun(how) ==
    [hist EXCEPT !.alert_run =
        [k \in TopicKeys |-> IF hist.alert_run[k] = "running" THEN how ELSE hist.alert_run[k]]]

TooSoon(k, now) ==
    /\ hist.alert_at[k] # -1
    /\ now - hist.alert_at[k] < config.alert_after_hours

(* One iteration of the loop over config["topic_pairs"]; send_message      *)
(* returns True, returns False (status or "ok" flag) or requests.post       *)
(* raises, which nothing in checker.py catches.                            *)
CheckPair ==
    /\ run.pc = "pairs"
    /\ LET pair == config.topic_pairs[run.i]
           k == str(pair.pbp_topic_id)
           next == IF run.i = Len(config.topic_pairs) THEN "save" ELSE "pairs"
       IN IF Decide(pair, run.state, run.now) # "send"
          THEN /\ run' = [run EXCEPT !.pc = next, !.i = @ + 1,
                                     !.evaluated = @ \cup {run.i}]
               /\ hist' = hist
          ELSE \E outcome \in {"ok", "fail", "raise"} :
                /\ run' = [run EXCEPT
                             !.pc = IF outcome = "raise" THEN "crashed" ELSE next,
                             !.i = @ + 1,
                             !.evaluated = @ \cup {run.i},
                             !.sent[k] = @ + 1,
                             !.calls = @ \cup {"sendMessage"},
                             !.outcome[k] = outcome,
                             !.after_saved_alert =
                                 IF outcome = "ok" /\ hist.alert_run[k] = "saved"
                                 THEN @ \cup {k} ELSE @,
                             !.too_soon_after_saved =
                                 IF outcome = "ok" /\ TooSoon(k, run.now) /\ hist.alert_run[k] = "saved"
                                 THEN @ \cup {k} ELSE @,
                             !.too_soon_after_unsaved =
                                 IF outcome = "ok" /\ TooSoon(k, run.now) /\ hist.alert_run[k] = "unsaved"
                                 THEN @ \cup {k} ELSE @,
                             !.too_soon_after_crash =
                                 IF outcome = "ok" /\ TooSoon(k, run.now) /\ hist.alert_run[k] = "crashed"
                                 THEN @ \cup {k} ELSE @,
                             !.state.last_alerts =
                                 IF outcome = "raise" THEN @
                                 ELSE RecordAlert(@, k, run.now, outcome = "ok")]
                /\ hist' = CASE outcome = "ok" -> HistAfterAlert(k, run.now)
                             [] outcome = "raise" -> HistAfterRun("crashed")
                             [] OTHER -> HistAfterFailure(k)
    /\ UNCHANGED <<env, clock, gist, pending, nextId, pu, fs, imp, procs>>

(* save_state_to_gist, lines 80-86: the document sent is the whole state. *)
DocumentWithoutAlerts(state) == [state EXCEPT !.last_alerts = EmptyMap]

Document(state) == state

(* save_state_to_gist: without gist credentials it returns at once; a 200  *)
(* answer means the document was replaced; requests.patch may raise.       *)
Save ==
    /\ run.pc = "save"
    /\ \E outcome \in {"ok", "fail", "raise"} :
        /\ run' = [run EXCEPT !.save_attempted = TRUE,
                              !.calls = IF env.gist_creds THEN @ \cup {"gist_patch"} ELSE @,
                              !.pc = IF env.gist_creds /\ outcome = "raise"
                                     THEN "crashed" ELSE "done"]
        /\ gist' = IF env.gist_creds /\ outcome = "ok" THEN <<Document(run.state)>> ELSE gist
        /\ hist' = HistAfterRun(CASE ~env.gist_creds -> "unsaved"
                                  [] outcome = "ok" -> "saved"
                                  [] outcome = "fail" -> "unsaved"
                                  [] OTHER -> "crashed")
    /\ UNCHANGED <<env, clock, pending, nextId, pu, fs, imp, procs>>

(* The process ends: normally, by sys.exit(1) or by an uncaught exception. *)
Exit ==
    /\ run.pc \in {"done", "crashed", "fatal"}
    /\ run' = IdleRun
    /\ UNCHANGED <<env, clock, gist, pending, nextId, hist, pu, fs, imp, procs>>

Next ==
    \/ Tick
    \/ Arrive
    \/ Start
    \/ Load
    \/ FetchAndProcess
    \/ CheckBegin
    \/ CheckPair
    \/ Save
    \/ Exit

Spec == Init /\ [][Next]_vars

(* The same runs with both credentials set, soft failures of a send being  *)
(* remembered from one run to the next.                                    *)
RetryInit ==
    /\ env = [telegram_token |-> TRUE, gist_creds |-> TRUE]
    /\ clock = 0
    /\ gist = <<>>
    /\ pending = <<>>
    /\ nextId = 1
    /\ run = IdleRun
    /\ hist = [NoHistory EXCEPT !.watch_retries = TRUE]
    /\ pu = [phase |-> "off"]
    /\ fs = [off |-> TRUE]
    /\ imp = [pc |-> "off"]
    /\ procs = [off |-> TRUE]

SpecRetry == RetryInit /\ [][Next]_vars

(* ------------------------- overlapping checker runs -------------------- *)
(* Two checker processes that nothing keeps apart (no lock is held across  *)
(* invocations): each runs main against the same gist and the same update  *)
(* queue.  A process touches what the two share in its load, its fetch and *)
(* its save; what it does between two of them works on its own state and   *)
(* belongs to the step of the call before.  A process that dies on a       *)
(* raising call is back to idle, having saved nothing.                     *)
Procs == {1, 2}

IdleProc == [pc |-> "idle", state |-> EmptyState, loaded |-> "none",
             overlapped |-> FALSE, lost |-> {}, runs |-> 0]

(* A process between two runs; runs counts the runs it has started. *)
Idle(p) == [IdleProc EXCEPT !.runs = procs[p].runs]

OvInit ==
    /\ env = [telegram_token |-> TRUE, gist_creds |-> TRUE]
    /\ clock = 0
    /\ gist = <<>>
    /\ pending = <<>>
    /\ nextId = 1
    /\ procs = [p \in Procs |-> IdleProc]
    /\ run = [pc |-> "off"]
    /\ hist = [off |-> TRUE]
    /\ pu = [phase |-> "off"]
    /\ fs = [off |-> TRUE]
    /\ imp = [pc |-> "off"]

OvTick ==
    /\ \A p \in Procs : procs[p].pc = "idle"
    /\ clock < MaxOverlapClock
    /\ clock' = clock + 1
    /\ UNCHANGED <<env, gist, pending, nextId, run, hist, pu, fs, imp, procs>>

(* A person's message in either PBP topic. *)
OverlapShapes == { m \in LiveShapes : Tracks(Update(1, m)) }

(* An update reaches the transport, runs being under way or not.  Only a   *)
(* fetch reads the queue, so an update that arrives during a run arrives   *)
(* when a process is about to fetch; with one process running alone that   *)
(* is as arriving before the run.                                          *)
OvArrive ==
    /\ \/ \A p \in Procs : procs[p].pc = "idle"
       \/ /\ \E p \in Procs : procs[p].pc = "fetch"
          /\ \A p \in Procs : procs[p].pc # "idle"
    /\ nextId <= MaxUpdates
    /\ \E m \in OverlapShapes : pending' = Append(pending, Update(nextId, m))
    /\ nextId' = nextId + 1
    /\ UNCHANGED <<env, clock, gist, run, hist, pu, fs, imp, procs>>

(* main, lines 254-262: the credential check and the load.  A process that *)
(* starts while the other is under way overlaps it, and the other overlaps *)
(* it.  Runs that follow one another are runs of process 1; process 2 is   *)
(* the one that starts on top of a run under way.                          *)
OvLoad(p) ==
    /\ procs[p].pc = "idle"
    /\ p = 2 => procs[1].pc # "idle"
    /\ procs[1].runs + procs[2].runs < MaxOverlapRuns
    /\ TokenPresent
    /\ \E outcome \in {"ok", "fail", "raise"} :
        procs' = [q \in Procs |->
                    IF q = p
                    THEN IF outcome = "raise" THEN [Idle(p) EXCEPT !.runs = @ + 1]
                         ELSE [Idle(p) EXCEPT
                                 !.pc = "fetch", !.runs = @ + 1,
                                 !.state = load_state_from_gist(outcome),
                                 !.loaded = outcome,
                                 !.overlapped = \E o \in Procs \ {p} : procs[o].pc # "idle"]
                    ELSE IF procs[q].pc # "idle" /\ outcome # "raise"
                    THEN [procs[q] EXCEPT !.overlapped = TRUE]
                    ELSE procs[q]]
    /\ UNCHANGED <<env, clock, gist, pending, nextId, run, hist, pu, fs, imp>>

(* check_and_alert as a function of the state, the hour and what each      *)
(* send_message call does: the state after the loop.                       *)
RECURSIVE check_and_alert_from(_, _, _, _)
check_and_alert_from(i, state, now, outcomes) ==
    IF i > Len(config.topic_pairs) THEN state
    ELSE LET pair == config.topic_pairs[i]
             k == str(pair.pbp_topic_id)
             after == IF Decide(pair, state, now) = "send"
                      THEN [state EXCEPT
                              !.last_alerts = RecordAlert(@, k, now, outcomes[i] = "ok")]
                      ELSE state
         IN check_and_alert_from(i + 1, after, now, outcomes)

check_and_alert(state, now, outcomes) == check_and_alert_from(1, state, now, outcomes)

(* The pairs the loop calls send_message for. *)
Senders(state, now) ==
    {i \in DOMAIN config.topic_pairs : Decide(config.topic_pairs[i], state, now) = "send"}

(* send_message raising for a pair the loop sends to. *)
SendRaises(state, now, outcomes) ==
    \E i \in Senders(state, now) : outcomes[i] = "raise"

(* main, lines 265-274: the fetch, process_updates and check_and_alert. *)
OvFetchAndCheck(p) ==
    /\ procs[p].pc = "fetch"
    /\ \E outcome \in {"ok", "fail", "raise"} :
        LET updates == IF outcome = "ok" THEN get_updates(procs[p].state.offset) ELSE <<>>
            state == AfterUpdates(procs[p].state, updates, clock)
        IN \E outcomes \in [Senders(state, clock) -> {"ok", "fail", "raise"}] :
           /\ pending' = IF outcome = "ok" THEN updates ELSE pending
           /\ procs' = IF outcome = "raise" \/ SendRaises(state, clock, outcomes)
                       THEN [procs EXCEPT ![p] = Idle(p)]
                       ELSE [procs EXCEPT
                               ![p].pc = "save",
                               ![p].state = check_and_alert(state, clock, outcomes)]
    /\ UNCHANGED <<env, clock, gist, nextId, run, hist, pu, fs, imp>>

(* What a new document drops of the one it replaces: an offset advance, a  *)
(* topic's record or its newer time, an alert timestamp.                   *)
Dropped(old, new) ==
    IF old = <<>> THEN {}
    ELSE {kind \in {"offset", "topic", "alert"} :
            \/ kind = "offset" /\ new.offset < old[1].offset
            \/ kind = "topic" /\ \E k \in DOMAIN old[1].topics :
                   \/ k \notin DOMAIN new.topics
                   \/ new.topics[k].last_message_time < old[1].topics[k].last_message_time
            \/ kind = "alert" /\ \E k \in DOMAIN old[1].last_alerts :
                   \/ k \notin DOMAIN new.last_alerts
                   \/ new.last_alerts[k] < old[1].last_alerts[k]}

(* main, line 277. *)
OvSave(p) ==
    /\ procs[p].pc = "save"
    /\ \E outcome \in {"ok", "fail", "raise"} :
        /\ gist' = IF outcome = "ok" THEN <<Document(procs[p].state)>> ELSE gist
        /\ procs' = IF outcome = "raise"
                    THEN [procs EXCEPT ![p] = Idle(p)]
                    ELSE [procs EXCEPT
                            ![p].pc = "done",
                            ![p].lost = IF outcome = "ok"
                                        THEN Dropped(gist, Document(procs[p].state))
                                        ELSE {}]
    /\ UNCHANGED <<env, clock, pending, nextId, run, hist, pu, fs, imp>>

OvExit(p) ==
    /\ procs[p].pc = "done"
    /\ procs' = [procs EXCEPT ![p] = Idle(p)]
    /\ UNCHANGED <<env, clock, gist, pending, nextId, run, hist, pu, fs, imp>>

OvNext ==
    \/ OvTick
    \/ OvArrive
    \/ \E p \in Procs : OvLoad(p)
    \/ \E p \in Procs : OvFetchAndCheck(p)
    \/ \E p \in Procs : OvSave(p)
    \/ \E p \in Procs : OvExit(p)

SpecOverlap == OvInit /\ [][OvNext]_vars

(* --------------------------- historical importer ------------------------ *)
(* Strings the importer takes apart (campaign names, message ids, the id    *)
(* tracker's text) are sequences of characters, ordered as Python orders    *)
(* them.                                                                    *)
Chars == <<"\n", " ", "!", "-", "0", "1", "2", "3", "4", "5", "6", "7", "8", "9", "A", "B", "_">>

Rank(c) == CHOOSE i \in DOMAIN Chars : Chars[i] = c

RECURSIVE LexLess(_, _)
LexLess(a, b) ==
    IF b = <<>> THEN FALSE
    ELSE IF a = <<>> THEN TRUE
    ELSE IF Head(a) = Head(b) THEN LexLess(Tail(a), Tail(b))
    ELSE Rank(Head(a)) < Rank(Head(b))

RECURSIVE chars(_)
chars(n) == IF n < 10 THEN <<Digit[n + 1]>> ELSE chars(n \div 10) \o <<Digit[(n % 10) + 1]>>

RECURSIVE sorted(_)
sorted(S) ==
    IF S = {} THEN <<>>
    ELSE LET m == CHOOSE x \in S : \A y \in S : y = x \/ LexLess(x, y)
         IN <<m>> \o sorted(S \ {m})

IsSpace(c) == c \in {"\n", " "}

RECURSIVE lstrip(_)
lstrip(t) == IF t # <<>> /\ IsSpace(Head(t)) THEN lstrip(Tail(t)) ELSE t

RECURSIVE rstrip(_)
rstrip(t) ==
    IF t # <<>> /\ IsSpace(t[Len(t)]) THEN rstrip(SubSeq(t, 1, Len(t) - 1)) ELSE t

strip(t) == rstrip(lstrip(t))

RECURSIVE split(_, _)
split(t, sep) ==
    IF \E i \in DOMAIN t : t[i] = sep
    THEN LET i == CHOOSE j \in DOMAIN t : t[j] = sep /\ \A h \in 1..(j - 1) : t[h] # sep
         IN <<SubSeq(t, 1, i - 1)>> \o split(SubSeq(t, i + 1, Len(t)), sep)
    ELSE <<t>>

RECURSIVE join(_, _)
join(sep, parts) ==
    IF parts = <<>> THEN <<>>
    ELSE IF Len(parts) = 1 THEN parts[1]
    ELSE parts[1] \o <<sep>> \o join(sep, Tail(parts))

Range(q) == {q[i] : i \in DOMAIN q}

import_config ==
    [ gm_user_ids |-> {999},
      topic_pairs |-> << [name |-> <<"A", " ", "1">>, pbp_topic_ids |-> <<100, 101>>],
                         [name |-> <<"B", "!">>, pbp_topic_ids |-> <<200>>] >> ]

(* build_thread_map: thread id -> campaign name, a later pair overwriting. *)
build_thread_map(cfg) ==
    LET tids == UNION {Range(cfg.topic_pairs[i].pbp_topic_ids) : i \in DOMAIN cfg.topic_pairs}
    IN [tid \in tids |->
           LET i == CHOOSE j \in DOMAIN cfg.topic_pairs :
                        /\ tid \in Range(cfg.topic_pairs[j].pbp_topic_ids)
                        /\ \A h \in DOMAIN cfg.topic_pairs :
                               tid \in Range(cfg.topic_pairs[h].pbp_topic_ids) => h <= j
           IN cfg.topic_pairs[i].name]

(* build_gm_map: no pair of import_config has its own gm_user_ids.  A GM   *)
(* id is compared as str(uid); from_id is "user" followed by that string.  *)
build_gm_map(cfg) ==
    [n \in {cfg.topic_pairs[i].name : i \in DOMAIN cfg.topic_pairs} |-> cfg.gm_user_ids]

IsAlnum(c) == c \in {"0", "1", "2", "3", "4", "5", "6", "7", "8", "9", "A", "B"}

sanitize_dirname(name) ==
    LET kept == SelectSeq(name, LAMBDA c : IsAlnum(c) \/ c \in {" ", "-", "_"})
        s == strip(kept)
    IN [i \in DOMAIN s |-> IF s[i] = " " THEN "_" ELSE s[i]]

(* An exported message.  None stands for an absent field; date is the      *)
(* timestamp in whole units, 0 for an absent or empty date string; action  *)
(* is whether the record carries a truthy action.                          *)
E(id, type, mt, rt, action, date, uid, text) ==
    [id |-> id, type |-> type, message_thread_id |-> mt, reply_to_message_id |-> rt,
     action |-> action, date |-> date, from_id |-> uid, text |-> text]

AllMsgs ==
    << E(2, "message", 100, None, FALSE, 2, 42, "two"),
       E(1, "message", None, 100, FALSE, 1, 999, "one"),
       E(None, "message", 100, None, FALSE, 3, 42, "anon"),
       E(3, "message", 200, None, FALSE, 1, 42, "bee"),
       E(4, "message", 100, None, TRUE, 2, 42, "pin"),
       E(5, "service", 100, None, FALSE, 2, 42, "join"),
       E(6, "message", 101, None, FALSE, 0, 42, "undated"),
       E(7, "message", 300, None, FALSE, 4, 42, "elsewhere") >>

Pool == SubSeq(AllMsgs, 1, IF PoolSize <= Len(AllMsgs) THEN PoolSize ELSE Len(AllMsgs))

(* The exports: the messages of the pool at the chosen positions, in pool  *)
(* order.                                                                  *)
RECURSIVE Pick(_, _)
Pick(q, keep) ==
    IF q = <<>> THEN <<>>
    ELSE (IF Len(q) \in keep THEN Pick(SubSeq(q, 1, Len(q) - 1), keep) \o <<q[Len(q)]>>
          ELSE Pick(SubSeq(q, 1, Len(q) - 1), keep))

Exports == {Pick(Pool, keep) : keep \in SUBSET DOMAIN Pool}

(* str(msg.get("id", "")) *)
id_str(msg) == IF msg.id = None THEN <<>> ELSE chars(msg.id)

(* msg.get("date", "")[:7]: the year-month of the timestamp, 0 for "". *)
month_of(date) == IF date = 0 THEN 0 ELSE (date + 1) \div 2

(* import_messages, lines 198-200: msg.get("message_thread_id") or         *)
(* msg.get("reply_to_message_id").                                         *)
thread_of(msg) ==
    IF msg.message_thread_id # None THEN msg.message_thread_id ELSE msg.reply_to_message_id

(* import_messages, lines 192-207: the campaign of a message, or none. *)
Candidate(msg, thread_map) ==
    IF msg.type # "message" THEN FALSE
    ELSE IF thread_of(msg) = None \/ thread_of(msg) \notin DOMAIN thread_map THEN FALSE
    ELSE IF msg.action THEN FALSE
    ELSE TRUE

pbp_messages(messages, thread_map) ==
    LET names == {thread_map[thread_of(messages[i])] :
                     i \in {j \in DOMAIN messages : Candidate(messages[j], thread_map)}}
    IN [n \in names |->
           SelectSeq(messages,
                     LAMBDA m : Candidate(m, thread_map) /\ thread_map[thread_of(m)] = n)]

(* The messages left in export order. *)
unsorted(msgs) == msgs

(* sorted(msgs, key=date): a stable sort. *)
RECURSIVE sorted_by_date(_)
sorted_by_date(msgs) ==
    IF msgs = <<>> THEN <<>>
    ELSE LET rest == sorted_by_date(SubSeq(msgs, 1, Len(msgs) - 1))
             m == msgs[Len(msgs)]
             before == SelectSeq(rest, LAMBDA x : x.date <= m.date)
             after == SelectSeq(rest, LAMBDA x : x.date > m.date)
         IN before \o <<m>> \o after

(* get_imported_ids / save_imported_ids on the tracker's text. *)
tracker_text(ids) == join("\n", sorted(ids)) \o <<"\n">>

no_tracker == <<>>

get_imported_ids(dir) ==
    IF dir.tracker # no_tracker THEN Range(split(strip(dir.tracker[1]), "\n")) ELSE {}

(* import_messages, lines 233-246: the new messages in date order; those   *)
(* with an empty date are neither counted nor written.                     *)
new_messages(msgs, imported_ids) ==
    SelectSeq(sorted_by_date(msgs),
              LAMBDA m : id_str(m) \notin imported_ids /\ month_of(m.date) # 0)

(* sorted(by_month.items()) flattened: month by month, each month's        *)
(* messages in the order they were grouped.                                *)
RECURSIVE by_month_order(_)
by_month_order(msgs) ==
    IF msgs = <<>> THEN <<>>
    ELSE LET lo == CHOOSE x \in {month_of(msgs[i].date) : i \in DOMAIN msgs} :
                       \A i \in DOMAIN msgs : x <= month_of(msgs[i].date)
         IN SelectSeq(msgs, LAMBDA m : month_of(m.date) = lo)
            \o by_month_order(SelectSeq(msgs, LAMBDA m : month_of(m.date) # lo))

(* The entry text carries no message id; the id field labels the entry     *)
(* with the message it was formatted from and is read by properties only.  *)
format_entry(msg, is_gm) ==
    [kind |-> "entry", ts |-> msg.date, gm |-> is_gm, content |-> msg.text,
     id |-> id_str(msg)]

file_header(campaign_name, month) ==
    [kind |-> "header", ts |-> month, gm |-> FALSE, content |-> "header", id |-> <<>>]

no_dir == [tracker |-> no_tracker, files |-> EmptyMap]

(* A dry run that made the campaign directory all the same. *)
mkdir_always(files, d, dry_run) ==
    IF d \in DOMAIN files THEN files ELSE Put(files, d, no_dir)

(* campaign_dir.mkdir(parents=True, exist_ok=True), skipped by a dry run. *)
mkdir(files, d, dry_run) ==
    IF dry_run \/ d \in DOMAIN files THEN files ELSE Put(files, d, no_dir)

(* imported_ids = get_imported_ids(campaign_dir) if not dry_run else set() *)
ids_at_start(dir, dry_run) == IF dry_run THEN {} ELSE get_imported_ids(dir)

(* An id-set persisted ahead of the writes it stands for. *)
tracker_saved_first(tracker, imported_ids, writes) ==
    <<tracker_text(imported_ids \cup {id_str(writes[i]) : i \in DOMAIN writes})>>

(* The write loop leaves the tracker file alone: save_imported_ids is       *)
(* called after it.                                                        *)
tracker_during_writes(tracker, imported_ids, writes) == tracker

IdleImport ==
    [pc |-> "idle", export |-> <<>>, dry_run |-> FALSE, repeat |-> FALSE, runs |-> 0,
     todo |-> <<>>, campaign |-> <<>>, imported_ids |-> {}, new_ids |-> {},
     writes |-> <<>>, new_count |-> 0, results |-> EmptyMap, fs0 |-> EmptyMap,
     prev_real |-> FALSE, after_real |-> FALSE]

ImInit ==
    /\ fs = EmptyMap
    /\ imp = IdleImport
    /\ env = [telegram_token |-> FALSE, gist_creds |-> FALSE]
    /\ clock = 0
    /\ gist = <<>>
    /\ pending = <<>>
    /\ nextId = 1
    /\ run = [pc |-> "off"]
    /\ hist = [off |-> TRUE]
    /\ pu = [phase |-> "off"]
    /\ procs = [off |-> TRUE]

(* import_messages, lines 179-219, on a new export or on the export of the *)
(* run before.                                                             *)
ImStart ==
    /\ imp.pc = "idle"
    /\ imp.runs < MaxRuns
    /\ \E export \in Exports, dry_run \in BOOLEAN :
        LET found == pbp_messages(export, build_thread_map(import_config))
        IN imp' = [IdleImport EXCEPT
               !.pc = IF DOMAIN found = {} THEN "done" ELSE "campaign",
               !.export = export, !.dry_run = dry_run,
               !.repeat = (imp.runs > 0 /\ imp.prev_real /\ export = imp.export),
               !.after_real = (imp.runs > 0 /\ imp.prev_real),
               !.runs = imp.runs + 1,
               !.todo = sorted(DOMAIN found),
               !.fs0 = fs]
    /\ UNCHANGED fs
    /\ UNCHANGED <<checkerVars, pu, procs>>

(* import_messages, lines 221-258: one campaign up to its writes. *)
ImCampaign ==
    /\ imp.pc = "campaign"
    /\ imp.todo # <<>>
    /\ LET name == Head(imp.todo)
           d == sanitize_dirname(name)
           msgs == pbp_messages(imp.export, build_thread_map(import_config))[name]
           fs1 == mkdir(fs, d, imp.dry_run)
           imported_ids == ids_at_start(Get(fs1, d, no_dir), imp.dry_run)
           new == new_messages(msgs, imported_ids)
       IN /\ fs' = fs1
          /\ IF Len(new) = 0 \/ imp.dry_run
             THEN imp' = [imp EXCEPT !.results = Put(@, name, Len(new)),
                                     !.todo = Tail(@),
                                     !.pc = IF Tail(imp.todo) = <<>> THEN "done" ELSE "campaign"]
             ELSE imp' = [imp EXCEPT !.pc = "write", !.campaign = name,
                                     !.imported_ids = imported_ids, !.new_ids = {},
                                     !.writes = by_month_order(new), !.new_count = Len(new)]
    /\ UNCHANGED <<checkerVars, pu, procs>>

(* import_messages, lines 261-275: one entry appended to its month file,   *)
(* the file getting its header first when it did not exist.                *)
ImWrite ==
    /\ imp.pc = "write"
    /\ imp.writes # <<>>
    /\ LET msg == Head(imp.writes)
           d == sanitize_dirname(imp.campaign)
           month == month_of(msg.date)
           is_gm == msg.from_id \in Get(build_gm_map(import_config), imp.campaign, {})
           old == IF month \in DOMAIN fs[d].files
                  THEN fs[d].files[month] ELSE <<file_header(imp.campaign, month)>>
       IN /\ fs' = [fs EXCEPT
                  ![d].files = Put(@, month, Append(old, format_entry(msg, is_gm))),
                  ![d].tracker = tracker_during_writes(@, imp.imported_ids, imp.writes)]
          /\ imp' = [imp EXCEPT !.writes = Tail(@), !.new_ids = @ \cup {id_str(msg)}]
    /\ UNCHANGED <<checkerVars, pu, procs>>

(* import_messages, lines 277-283: the id-set saved after the writes. *)
ImSaveIds ==
    /\ imp.pc = "write"
    /\ imp.writes = <<>>
    /\ LET d == sanitize_dirname(imp.campaign)
           all_ids == imp.imported_ids \cup imp.new_ids
       IN fs' = [fs EXCEPT ![d].tracker = <<tracker_text(all_ids)>>]
    /\ imp' = [imp EXCEPT !.results = Put(@, imp.campaign, imp.new_count),
                          !.todo = Tail(@),
                          !.pc = IF Tail(imp.todo) = <<>> THEN "done" ELSE "campaign"]
    /\ UNCHANGED <<checkerVars, pu, procs>>

(* import_messages returns; the export stays known to the next run. *)
ImReturn ==
    /\ imp.pc = "done"
    /\ imp' = [IdleImport EXCEPT !.export = imp.export, !.runs = imp.runs,
                                 !.prev_real = ~imp.dry_run]
    /\ UNCHANGED fs
    /\ UNCHANGED <<checkerVars, pu, procs>>

(* The process dies between two steps of import_messages; what it wrote    *)
(* stays on disk.                                                          *)
ImCrash ==
    /\ imp.pc \in {"campaign", "write"}
    /\ imp' = [IdleImport EXCEPT !.export = imp.export, !.runs = imp.runs]
    /\ UNCHANGED fs
    /\ UNCHANGED <<checkerVars, pu, procs>>

ImNext ==
    \/ ImStart
    \/ ImCampaign
    \/ ImWrite
    \/ ImSaveIds
    \/ ImReturn
    \/ ImCrash

SpecImport == ImInit /\ [][ImNext]_vars

(* ------------------ classification of one exported record --------------- *)
(* The marker of a string field the record does not carry. *)
Absent == "<absent>"

MediaTypes == {"", "animation", "video_file", "voice_message", "video_message", "sticker"}

(* The exported records: media_type and photo are "" when absent (the code *)
(* tests them for equality and for truth only), file is the path split at  *)
(* "/", <<>> when absent.                                                  *)
ExportRecords ==
    [type : {"message", "service"},
     message_thread_id : {None, 100, 300},
     reply_to_message_id : {None, 100, 300},
     action : BOOLEAN,
     media_type : MediaTypes,
     sticker_emoji : {Absent, "x"},
     photo : {"", "p.jpg"},
     file : {<<>>, <<"a", "b.webp">>}]

Tag(kind, arg) == [kind |-> kind, arg |-> arg]

NoTag == Tag("None", "")

(* detect_media, lines 98-126. *)
detect_media(msg) ==
    IF msg.media_type = "animation" THEN Tag("gif", "")
    ELSE IF msg.media_type = "video_file" THEN Tag("video", "")
    ELSE IF msg.media_type = "voice_message" THEN Tag("voice message", "")
    ELSE IF msg.media_type = "video_message" THEN Tag("video note", "")
    ELSE IF msg.media_type = "sticker"
         THEN Tag("sticker:", IF msg.sticker_emoji = Absent THEN "?" ELSE msg.sticker_emoji)
    ELSE IF msg.photo # "" THEN Tag("image", "")
    ELSE IF msg.file # <<>> /\ msg.media_type = ""
         THEN Tag("document:", msg.file[Len(msg.file)])
    ELSE NoTag

ClInit ==
    /\ pu \in [phase : {"record"}, msg : ExportRecords, candidate : {FALSE}, media : {NoTag}]
    /\ env = [telegram_token |-> FALSE, gist_creds |-> FALSE]
    /\ clock = 0
    /\ gist = <<>>
    /\ pending = <<>>
    /\ nextId = 1
    /\ run = [pc |-> "off"]
    /\ hist = [off |-> TRUE]
    /\ fs = [off |-> TRUE]
    /\ imp = [pc |-> "off"]
    /\ procs = [off |-> TRUE]

(* import_messages, lines 192-207, on one record of the export. *)
ClClassify ==
    /\ pu.phase = "record"
    /\ pu' = [pu EXCEPT !.phase = "classified",
                        !.candidate = Candidate(pu.msg, build_thread_map(import_config))]
    /\ UNCHANGED checkerVars
    /\ UNCHANGED <<fs, imp, procs>>

(* format_entry's call of detect_media on the record. *)
ClDetect ==
    /\ pu.phase = "classified"
    /\ pu' = [pu EXCEPT !.phase = "tagged", !.media = detect_media(pu.msg)]
    /\ UNCHANGED checkerVars
    /\ UNCHANGED <<fs, imp, procs>>

ClNext == ClClassify \/ ClDetect

SpecClassify == ClInit /\ [][ClNext]_vars

(* ------------------------ claims on the live checker ------------------- *)
H == config.alert_after_hours

SameEntry(f, g, k) ==
    IF k \in DOMAIN f THEN k \in DOMAIN g /\ g[k] = f[k] ELSE k \notin DOMAIN g

CheckOver == run.check_started /\ run.pc \in {"save", "done", "crashed"}

DueWithoutPriorAlert(k) ==
    /\ k \in DOMAIN run.state0.topics
    /\ run.now - run.state0.topics[k].last_message_time >= H
    /\ k \notin DOMAIN run.state0.last_alerts

(* C3: from one step of any run to the next, the offset held in the        *)
(* persisted state never decreases, loads and saves failing softly or not. *)
C3_PersistedOffsetNeverDecreases == [][PersistedOffset' >= PersistedOffset]_vars

(* C4: when check_and_alert is over, every configured topic that had a     *)
(* record, a silence of at least alert_after_hours (equality included) and *)
(* no prior alert has been sent exactly one alert, and no topic two.       *)
C4_DueTopicsAlertedOnce ==
    CheckOver =>
        /\ \A k \in TopicKeys : DueWithoutPriorAlert(k) => run.sent[k] = 1
        /\ \A k \in TopicKeys : run.sent[k] <= 1

(* C5: a topic whose last recorded alert is less than alert_after_hours    *)
(* before the run's time is sent no alert and keeps its last_alerts entry, *)
(* whatever its silence.                                                   *)
C5_CooldownSuppresses ==
    run.check_started =>
        \A k \in TopicKeys :
            (k \in DOMAIN run.state0.last_alerts /\ run.now - run.state0.last_alerts[k] < H) =>
                /\ run.sent[k] = 0
                /\ SameEntry(run.state0.last_alerts, run.state.last_alerts, k)

C5_Witness ==
    /\ CheckOver
    /\ run.evaluated = DOMAIN config.topic_pairs
    /\ \E k \in TopicKeys :
        /\ k \in DOMAIN run.state0.last_alerts
        /\ run.now - run.state0.last_alerts[k] < H
        /\ k \in DOMAIN run.state0.topics
        /\ run.now - run.state0.topics[k].last_message_time > H
        /\ run.sent[k] = 0

(* C6: for a topic an alert was sent for, last_alerts[topic] is the run's  *)
(* time if and only if the send succeeded; after a failed send it is what  *)
(* it was before the run.                                                  *)
C6_AlertRecordedIffSent ==
    run.check_started =>
        \A k \in TopicKeys :
            /\ run.outcome[k] = "ok" =>
                  /\ k \in DOMAIN run.state.last_alerts
                  /\ run.state.last_alerts[k] = run.now
                  /\ ~SameEntry(run.state0.last_alerts, run.state.last_alerts, k)
            /\ run.outcome[k] \in {"fail", "raise"} =>
                  SameEntry(run.state0.last_alerts, run.state.last_alerts, k)

C6_Witness ==
    /\ CheckOver
    /\ \E k1, k2 \in TopicKeys :
        /\ run.outcome[k1] = "ok"
        /\ run.outcome[k2] = "fail"
        /\ k2 \in DOMAIN run.state0.last_alerts
        /\ run.state.last_alerts[k2] = run.state0.last_alerts[k2]

(* C7 as claimed, for runs whose failures are all soft: while a topic      *)
(* receives no new qualifying message, an alert successfully sent for it   *)
(* comes at least alert_after_hours after the previous one, also when the  *)
(* run that sent the previous one ended normally after a failed save.      *)
C7_AlertsSpacedApart ==
    /\ run.too_soon_after_saved = {}
    /\ run.too_soon_after_unsaved = {}

(* C7 as amended: while a topic receives no new qualifying message, an     *)
(* alert successfully sent for it comes at least alert_after_hours after   *)
(* the previous one whenever the run that sent the previous one saved its  *)
(* state successfully.                                                     *)
C7_AlertsSpacedAfterSave == run.too_soon_after_saved = {}

C7_Witness ==
    \E k \in TopicKeys :
        /\ k \in run.after_saved_alert
        /\ run.outcome[k] = "ok"
        /\ k \in DOMAIN run.state0.last_alerts
        /\ run.now - run.state0.last_alerts[k] >= H
        /\ run.state0.topics[k].last_message_time < run.state0.last_alerts[k]

(* C8: a send failure for one pair, by status or by exception, does not    *)
(* keep the monitor from evaluating every remaining pair of the run.       *)
C8_EveryPairEvaluated ==
    CheckOver => run.evaluated = DOMAIN config.topic_pairs

(* C9: a run that got past the credential check does not end before       *)
(* save_state_to_gist was called, whatever failed earlier in the run.      *)
C9_RunReachesSave ==
    run.pc \in {"done", "crashed"} => run.save_attempted

NetworkCalls == {"gist_get", "getUpdates", "sendMessage", "gist_patch"}

C20_UntrackedTopicNotAlerted ==
    run.check_started =>
        \A k \in TopicKeys :
            k \notin DOMAIN run.state0.topics =>
                /\ run.sent[k] = 0
                /\ SameEntry(run.state0.last_alerts, run.state.last_alerts, k)

C20_Witness ==
    /\ CheckOver
    /\ run.pc = "save"
    /\ \E k \in TopicKeys : k \notin DOMAIN run.state0.topics
    /\ \E k \in TopicKeys : run.sent[k] = 1

(* C18: a save that drops an offset advance, a topic update or an alert    *)
(* timestamp of the persisted state comes from a run that overlapped       *)
(* another run or whose load did not succeed; overlapping runs do reach    *)
(* such a save (the witness).                                              *)
C18_SerializedRunsLoseNothing ==
    \A p \in Procs :
        procs[p].lost # {} => procs[p].overlapped \/ procs[p].loaded # "ok"

(* Both runs loaded before either saved, the loads and the saves           *)
(* succeeded, and the second save dropped what the first had persisted.    *)
C18_Witness ==
    \E p \in Procs :
        /\ procs[p].lost = {"offset", "topic", "alert"}
        /\ procs[p].overlapped
        /\ procs[p].loaded = "ok"
        /\ \A q \in Procs : procs[q].pc = "done" /\ procs[q].loaded = "ok"

(* C24: a run whose load succeeded, coming right after a run in which the  *)
(* alert for a topic failed, the topic having had no qualifying message    *)
(* since, has attempted the alert for that topic when it ends.             *)
C24_FailedAlertRetried ==
    (run.pc \in {"done", "crashed"} /\ run.loaded = "ok") =>
        \A k \in run.retry : run.sent[k] >= 1

(* C27: from the empty state on, every key of the topics and last_alerts   *)
(* mappings, in the running process and in the stored document, is the     *)
(* string form of a pbp topic id of the configuration.                     *)
KeysOf(state) == DOMAIN state.topics \cup DOMAIN state.last_alerts

C27_KeysAreTopicIds ==
    /\ KeysOf(run.state) \subseteq TopicKeys
    /\ \A i \in DOMAIN gist : KeysOf(gist[i]) \subseteq TopicKeys

(* A run that loaded a stored state with a record and an alert has         *)
(* processed a message of a topic the configuration does not name, or a    *)
(* bot's message.                                                          *)
C27_Witness ==
    /\ run.pc = "check"
    /\ \E i \in DOMAIN run.updates :
           run.updates[i].message_thread_id = 3 \/ run.updates[i].is_bot
    /\ run.state.offset = MaxUpdates + 1
    /\ DOMAIN run.state.topics # {}
    /\ DOMAIN run.state.last_alerts # {}
    /\ gist # <<>>

(* C28: check_and_alert leaves the offset and every topic record as they   *)
(* were when it was called and changes last_alerts only at configured      *)
(* topics whose send succeeded in this run; process_updates leaves         *)
(* last_alerts as loaded.                                                  *)
C28_AlertingTouchesOnlySentAlerts ==
    /\ run.check_started =>
          /\ run.state.offset = run.state0.offset
          /\ run.state.topics = run.state0.topics
          /\ \A k \in DOMAIN run.state.last_alerts \cup DOMAIN run.state0.last_alerts :
                 Get(run.state.last_alerts, k, -1) # Get(run.state0.last_alerts, k, -1)
                    => (k \in TopicKeys /\ run.outcome[k] = "ok")
    /\ run.pc = "check" => run.state.last_alerts = run.pre.last_alerts

(* check_and_alert has sent one alert that went through and one that did   *)
(* not, on a state that already held an alert.                             *)
C28_Witness ==
    /\ run.pc = "save"
    /\ run.check_started
    /\ DOMAIN run.state0.last_alerts # {}
    /\ \E k \in TopicKeys : run.outcome[k] = "ok" /\ run.state.last_alerts[k] = run.now
    /\ \E k \in TopicKeys : run.outcome[k] = "fail"

(* C29: when check_and_alert is over, it has attempted an alert for every  *)
(* topic whose record was, at the call, at least alert_after_hours old and *)
(* not older than the topic's recorded alert.                              *)
NewSilence(k) ==
    /\ k \in DOMAIN run.state0.topics
    /\ k \in DOMAIN run.state0.last_alerts
          => run.state0.topics[k].last_message_time >= run.state0.last_alerts[k]
    /\ run.now - run.state0.topics[k].last_message_time >= config.alert_after_hours

C29_NewSilenceIsAlerted ==
    (run.check_started /\ run.pc \in {"save", "done", "crashed"})
        => \A k \in TopicKeys : NewSilence(k) => run.sent[k] >= 1

(* -------------------------- claims on the importer ---------------------- *)
(* C10: a real import run right after a real import of the same export     *)
(* returns 0 for every campaign and leaves every month file and every      *)
(* id-set as the first run left them.                                      *)
C10_SecondImportIsNoOp ==
    (imp.pc = "done" /\ imp.repeat /\ ~imp.dry_run) =>
        /\ \A n \in DOMAIN imp.results : imp.results[n] = 0
        /\ fs = imp.fs0

Dirs == DOMAIN fs

Positions(dir) ==
    UNION {{<<m, i>> : i \in DOMAIN dir.files[m]} : m \in DOMAIN dir.files}

At(dir, p) == dir.files[p[1]][p[2]]

EntriesOf(dir, x) ==
    {p \in Positions(dir) : At(dir, p).kind = "entry" /\ At(dir, p).id = x}

WrittenIdsOf(dir) ==
    {At(dir, p).id : p \in {q \in Positions(dir) : At(dir, q).kind = "entry"}}

PersistedIds(files, d) ==
    IF d \in DOMAIN files THEN get_imported_ids(files[d]) ELSE {}

OldLen(d, m) ==
    IF d \in DOMAIN imp.fs0 /\ m \in DOMAIN imp.fs0[d].files
    THEN Len(imp.fs0[d].files[m]) ELSE 0

AppendedTo(d, m) == SubSeq(fs[d].files[m], OldLen(d, m) + 1, Len(fs[d].files[m]))

AppendedIds(d) ==
    UNION {{AppendedTo(d, m)[i].id :
               i \in {j \in DOMAIN AppendedTo(d, m) : AppendedTo(d, m)[j].kind = "entry"}} :
           m \in DOMAIN fs[d].files}

Ascending(entries) ==
    \A i, j \in DOMAIN entries :
        (i < j /\ entries[i].kind = "entry" /\ entries[j].kind = "entry")
            => entries[i].ts <= entries[j].ts

SecondRealImport == imp.pc = "done" /\ ~imp.dry_run /\ imp.after_real

(* The export of the second import holds a message the first one wrote. *)
IdsOverlap ==
    \E i \in DOMAIN imp.export :
        /\ Candidate(imp.export[i], build_thread_map(import_config))
        /\ LET d == sanitize_dirname(
                        build_thread_map(import_config)[thread_of(imp.export[i])])
           IN d \in DOMAIN imp.fs0
              /\ EntriesOf(imp.fs0[d], id_str(imp.export[i])) # {}

(* C11: when a real import has followed a real import and the two exports  *)
(* share message ids, the second import wrote no message whose id was in   *)
(* the campaign's id-set, and every message id that has an entry in the    *)
(* campaign's month files has exactly one.                                 *)
C11_OverlappingImportsWriteOnce ==
    (SecondRealImport /\ IdsOverlap) =>
        \A d \in Dirs :
            /\ AppendedIds(d) \cap PersistedIds(imp.fs0, d) = {}
            /\ \A x \in WrittenIdsOf(fs[d]) : Cardinality(EntriesOf(fs[d], x)) = 1

(* C12: a dry run returns for each campaign the count of new messages a    *)
(* real run would return from the persisted state the dry run started in.  *)
C12_DryRunCountsAsRealRun ==
    (imp.pc = "done" /\ imp.dry_run) =>
        \A n \in DOMAIN imp.results :
            imp.results[n] =
                Len(new_messages(
                        pbp_messages(imp.export, build_thread_map(import_config))[n],
                        ids_at_start(Get(imp.fs0, sanitize_dirname(n), no_dir), FALSE)))

(* C13: at every step of a dry run the campaign directories, the month     *)
(* files and the id-sets are what they were when the run started.          *)
C13_DryRunChangesNothing ==
    (imp.dry_run /\ imp.pc # "idle") => fs = imp.fs0

C13_Witness ==
    /\ imp.dry_run
    /\ imp.pc = "done"
    /\ \E n \in DOMAIN imp.results :
           imp.results[n] > 0 /\ sanitize_dirname(n) \notin Dirs
    /\ \E n \in DOMAIN imp.results :
           imp.results[n] > 0 /\ sanitize_dirname(n) \in Dirs

(* C14: at every step, a crash included, every message id read from a      *)
(* campaign's persisted id-set has an entry in one of the campaign's month *)
(* files.                                                                  *)
C14_PersistedIdsAreWritten ==
    \A d \in Dirs : \A x \in PersistedIds(fs, d) : EntriesOf(fs[d], x) # {}

(* One campaign saved its ids after its writes, the run then died in the   *)
(* writes of the next campaign.                                            *)
C14_Witness ==
    /\ imp.pc = "idle"
    /\ \E d \in Dirs : PersistedIds(fs, d) # {}
    /\ \E d \in Dirs : fs[d].tracker = no_tracker /\ WrittenIdsOf(fs[d]) # {}

(* C15: whatever importer invocations have run, crashed ones and re-runs   *)
(* included, no message id has more than one entry across a campaign's     *)
(* month files.                                                            *)
C15_NoMessageWrittenTwice ==
    \A d \in Dirs : \A x \in WrittenIdsOf(fs[d]) : Cardinality(EntriesOf(fs[d], x)) <= 1

(* C16: after every real import the entries of every month file are in     *)
(* ascending timestamp order, files that an earlier import created         *)
(* included.                                                               *)
C16_MonthFilesAscending ==
    (imp.pc = "done" /\ ~imp.dry_run) =>
        \A d \in Dirs : \A m \in DOMAIN fs[d].files : Ascending(fs[d].files[m])

(* C16, amended: the entries one real import appends to a month file are   *)
(* in ascending timestamp order among themselves, whatever the order of    *)
(* the messages in the export.                                             *)
C16_AppendedEntriesAscending ==
    (imp.pc = "done" /\ ~imp.dry_run) =>
        \A d \in Dirs : \A m \in DOMAIN fs[d].files : Ascending(AppendedTo(d, m))

(* A real import appended two entries to a month file that existed, from   *)
(* an export that lists the later message first.                           *)
C16_Witness ==
    /\ imp.pc = "done"
    /\ ~imp.dry_run
    /\ \E d \in Dirs : \E m \in DOMAIN fs[d].files :
           /\ OldLen(d, m) > 0
           /\ \E k, l \in DOMAIN AppendedTo(d, m) :
                  /\ k < l
                  /\ AppendedTo(d, m)[k].ts < AppendedTo(d, m)[l].ts
                  /\ \E i, j \in DOMAIN imp.export :
                         /\ i > j
                         /\ id_str(imp.export[i]) = AppendedTo(d, m)[k].id
                         /\ id_str(imp.export[j]) = AppendedTo(d, m)[l].id

(* C17: when an importer invocation is over, every campaign's persisted    *)
(* id-set contains the id-set persisted before the invocation, and after a *)
(* real run it is that set united with the ids of the messages the run     *)
(* wrote.                                                                  *)
C17_IdSetOnlyGrows ==
    imp.pc = "done" =>
        \A d \in Dirs :
            /\ PersistedIds(imp.fs0, d) \subseteq PersistedIds(fs, d)
            /\ ~imp.dry_run =>
                   PersistedIds(fs, d) = PersistedIds(imp.fs0, d) \cup AppendedIds(d)

(* C30: each time import_messages saves a campaign's id-set, the set read  *)
(* back from the tracker is the set that was saved; a campaign directory   *)
(* without a tracker file reads as the empty set.                          *)
C30_TrackerRoundTrip ==
    [][ /\ \A d \in DOMAIN fs : fs[d].tracker = no_tracker => get_imported_ids(fs[d]) = {}
        /\ (imp.pc = "write" /\ imp.writes = <<>> /\ imp'.pc \in {"campaign", "done"})
              => get_imported_ids(fs'[sanitize_dirname(imp.campaign)])
                     = imp.imported_ids \cup imp.new_ids ]_vars

(* ---------------------- claims on process_updates --------------------- *)
BatchIds == {pu.updates[i].update_id : i \in DOMAIN pu.updates}

LargestId == CHOOSE m \in BatchIds : \A x \in BatchIds : x <= m

Qualifies(u) ==
    /\ u.has_message
    /\ u.chat_id = config.group_id
    /\ u.message_thread_id # None
    /\ \E i \in DOMAIN config.topic_pairs :
           config.topic_pairs[i].pbp_topic_id = u.message_thread_id
    /\ ~u.is_bot

(* C1: process_updates returns max(previous offset, 1 + the largest        *)
(* update_id of the batch), the maximum taken over every update of the     *)
(* batch whether or not it is tracked; for a non-empty batch whose ids are *)
(* all at or above the previous offset that is 1 + the largest id.         *)
C1_OffsetIsMaxOverAll ==
    pu.phase = "out" =>
        /\ BatchIds = {} => pu.new_offset = pu.state.offset
        /\ BatchIds # {} =>
              pu.new_offset = (IF pu.state.offset >= LargestId + 1
                               THEN pu.state.offset ELSE LargestId + 1)
        /\ (BatchIds # {} /\ \A x \in BatchIds : x >= pu.state.offset) =>
              pu.new_offset = LargestId + 1

C1_Witness ==
    /\ pu.phase = "out"
    /\ Len(pu.updates) = 2
    /\ Qualifies(pu.updates[1])
    /\ ~Qualifies(pu.updates[2])
    /\ pu.updates[2].update_id > pu.updates[1].update_id
    /\ pu.updates[2].update_id >= pu.state.offset
    /\ pu.new_offset = pu.updates[2].update_id + 1

(* C2: process_updates changes a topic record only for an update with a    *)
(* message in the configured group, in a thread that is a configured PBP   *)
(* topic, from a sender that is no bot; any other update (a bot's message  *)
(* in particular) changes no topic record and still advances the offset.   *)
C2_OnlyQualifyingUpdatesTrack ==
    pu.phase = "out" =>
        /\ \A k \in DOMAIN pu.topics :
              (k \notin DOMAIN pu.state.topics \/ pu.topics[k] # pu.state.topics[k]) =>
                  \E i \in DOMAIN pu.updates :
                      /\ Qualifies(pu.updates[i])
                      /\ str(pu.updates[i].message_thread_id) = k
        /\ DOMAIN pu.state.topics \subseteq DOMAIN pu.topics
        /\ (\A i \in DOMAIN pu.updates : ~Qualifies(pu.updates[i])) =>
              pu.topics = pu.state.topics
        /\ \A i \in DOMAIN pu.updates : pu.new_offset > pu.updates[i].update_id

C2_Witness ==
    /\ pu.phase = "out"
    /\ Len(pu.updates) = 2
    /\ \E i \in DOMAIN pu.updates :
           /\ pu.updates[i].is_bot
           /\ pu.updates[i].chat_id = config.group_id
           /\ str(pu.updates[i].message_thread_id) \in DOMAIN pbp_topic_ids
    /\ \A i \in DOMAIN pu.updates : ~Qualifies(pu.updates[i])
    /\ pu.state.topics # EmptyMap
    /\ pu.topics = pu.state.topics
    /\ pu.new_offset > pu.state.offset

QualifyingFor(k) ==
    {i \in DOMAIN pu.updates :
        Qualifies(pu.updates[i]) /\ str(pu.updates[i].message_thread_id) = k}

LastFor(k) == CHOOSE i \in QualifyingFor(k) : \A j \in QualifyingFor(k) : j <= i

(* C21: after the batch, the record of every topic that has a qualifying   *)
(* message in the batch holds the date carried by the last such message,   *)
(* its sender's name and the configured campaign name.                     *)
C21_RecordHoldsMessageDate ==
    pu.phase = "out" =>
        \A k \in DOMAIN pbp_topic_ids :
            QualifyingFor(k) # {} =>
                /\ k \in DOMAIN pu.topics
                /\ pu.topics[k].last_message_time = pu.updates[LastFor(k)].date
                /\ pu.topics[k].last_user = pu.updates[LastFor(k)].first_name
                /\ pu.topics[k].campaign_name = pbp_topic_ids[k]

(* C22: processing the same updates again from the same stored state, as   *)
(* the run after a failed save does, gives the offset and the topics       *)
(* mapping the first run computed.                                         *)
C22_ReprocessingGivesSameResult ==
    pu.phase = "again" =>
        /\ pu.again_offset = pu.new_offset
        /\ pu.again_topics = pu.topics

(* C23: the record of a topic with several qualifying messages in the      *)
(* batch is the one the last of them alone would leave; no field of it     *)
(* comes from an earlier message of the batch or from the prior record.    *)
C23_LastQualifyingMessageWins ==
    pu.phase = "out" =>
        \A k \in DOMAIN pbp_topic_ids :
            QualifyingFor(k) # {} =>
                /\ k \in DOMAIN pu.topics
                /\ pu.topics[k] =
                       process_updates(<<pu.updates[LastFor(k)]>>, EmptyState, 1).topics[k]
                /\ pu.topics[k].last_user = pu.updates[LastFor(k)].first_name

C23_Witness ==
    /\ pu.phase = "out"
    /\ \E k \in DOMAIN pbp_topic_ids :
           /\ Cardinality(QualifyingFor(k)) = 2
           /\ k \in DOMAIN pu.state.topics
           /\ \E i \in QualifyingFor(k) :
                  /\ i # LastFor(k)
                  /\ pu.updates[i].first_name # pu.updates[LastFor(k)].first_name
                  /\ pu.updates[i].update_id > pu.updates[LastFor(k)].update_id

(* -------------------- claims on record classification ------------------ *)
EarlierMarkers == {"animation", "video_file", "voice_message", "video_message"}

(* C25: a record of type "message" with no action is a candidate whenever  *)
(* its direct thread field or its reply-chain root field names a thread of *)
(* a configured campaign.                                                  *)
C25_EitherFieldResolves ==
    (/\ pu.phase \in {"classified", "tagged"}
     /\ pu.msg.type = "message"
     /\ ~pu.msg.action
     /\ \/ pu.msg.message_thread_id \in DOMAIN build_thread_map(import_config)
        \/ pu.msg.reply_to_message_id \in DOMAIN build_thread_map(import_config))
        => pu.candidate

(* C26: a record that carries a sticker emoji and none of the markers      *)
(* animation, video file, voice message, video note is tagged              *)
(* "sticker:{emoji}".                                                      *)
C26_StickerEmojiGivesStickerTag ==
    (/\ pu.phase = "tagged"
     /\ pu.msg.sticker_emoji # Absent
     /\ pu.msg.media_type \notin EarlierMarkers)
        => pu.media = Tag("sticker:", pu.msg.sticker_emoji)

====
